---- MODULE Spec2Model ----
(***************************************************************************)
(* Model of hearinglosssimulator/offlinehelper.py: the chunk scheduler     *)
(* (make_processing_loop.loop), the offline reassembler                    *)
(* (run_one_class_offline) and the streaming writer (compute_wave_file).   *)
(* Buffers have one channel: a row is one sample, a buffer a sequence of   *)
(* rows.  Python's 0-based half-open range [a, b) is rows a+1..b here.     *)
(***************************************************************************)
EXTENDS Integers, Sequences, FiniteSets, TLC

(* ------------------------------ bounds -------------------------------- *)
MaxN == 4            \* longest enumerated source buffer
MaxChunk == 3        \* largest enumerated chunksize
MaxMargin == 1       \* largest enumerated buffersize_margin
MaxWarm == 2         \* longest warm-up of the scripted adapters
MaxCalls == 8        \* horizon: adapter calls of a scripted adapter
MaxFreeN == 2        \* longest source buffer fed to an unconstrained adapter
MaxFreeCalls == 2    \* horizon: adapter calls of an unconstrained adapter
MaxPos == 3          \* largest position an unconstrained adapter reports
MaxLen == 2          \* longest chunk an unconstrained adapter returns
MaxLimit == 3        \* largest numerator of an enumerated duration_limit

(* ------------------------------ values -------------------------------- *)
Samples == 0 .. 1
Streams == {"main_output", "aux"}

\* Python's None / a present value, for positions (integers) and data (rows).
NoPos == [some |-> FALSE, v |-> 0]
SomePos(p) == [some |-> TRUE, v |-> p]
NoData == [some |-> FALSE, v |-> << >>]
SomeData(d) == [some |-> TRUE, v |-> d]
Entry(p, d) == [pos |-> p, data |-> d]

Min(a, b) == IF a < b THEN a ELSE b
Max(a, b) == IF a > b THEN a ELSE b

\* np.zeros((n, nb_channel))
Zeros(n) == [i \in 1 .. n |-> 0]
IsZeros(s) == \A i \in 1 .. Len(s) : s[i] = 0

\* All sequences over S of length n / of length at most n.
SeqsOfLen(S, n) == [1 .. n -> S]
SeqsUpTo(S, n) == UNION {SeqsOfLen(S, m) : m \in 0 .. n}

EmptyMap == [k \in {} |-> 0]
Put(m, k, x) == [j \in (DOMAIN m) \cup {k} |-> IF j = k THEN x ELSE m[j]]

(* ----------------------- numpy basic slicing -------------------------- *)
\* Bound of a slice a[start:stop] on an axis of n rows: a negative bound
\* counts from the end, and every bound is clipped into 0..n.
SliceBound(i, n) == IF i < 0 THEN Max(i + n, 0) ELSE Min(i, n)

\* a[start:stop, :] : the rows the normalised bounds select (none when the
\* normalised start is not before the normalised stop).
PySlice(a, start, stop) ==
    LET s == SliceBound(start, Len(a))
        e == SliceBound(stop, Len(a))
    IN  IF s < e THEN SubSeq(a, s + 1, e) ELSE << >>

\* a[start:stop, :] = d, for d with as many rows as the slice selects.
PySliceAssign(a, start, stop, d) ==
    LET s == SliceBound(start, Len(a))
        e == SliceBound(stop, Len(a))
    IN  [i \in 1 .. Len(a) |-> IF s < i /\ i <= e THEN d[i - s] ELSE a[i]]

\* The rows a[start:stop] selects, as a set of row numbers.
PySliceRows(n, start, stop) ==
    {i \in 1 .. n : SliceBound(start, n) < i /\ i <= SliceBound(stop, n)}

\* WaveNumpy.__getitem__: seek(start), then read stop-start frames; the read
\* is short when the file ends first.
WaveGetItem(a, start, stop) ==
    IF start < Len(a) /\ start < stop
    THEN SubSeq(a, start + 1, Min(stop, Len(a)))
    ELSE << >>

(* --------------------------- configurations --------------------------- *)
\* One run's arguments: in_buffer, chunksize, buffersize_margin, the
\* ProcessingClass (adapter) and, for compute_wave_file, duration_limit (as
\* the fraction num/den of a second) and the file's sample rate.
NoLimit == [some |-> FALSE, num |-> 0, den |-> 1]
Limits ==
    {NoLimit} \cup {[some |-> TRUE, num |-> n, den |-> d] : n \in 0 .. MaxLimit, d \in 1 .. 2}

\* A scripted adapter stays silent (None, None) for its first `warmup` calls
\* and then reports, on call k, the position endIndex - delay*chunksize with
\* chunksize rows of data: its own input chunk ("echo") or rows of 1 ("mark").
\* With aux it also reports a second stream at position endIndex.
ScriptedAdapters ==
    {[kind |-> "scripted", warmup |-> w, delay |-> d, data |-> m, aux |-> x] :
        w \in 0 .. MaxWarm, d \in 0 .. MaxWarm, m \in {"echo", "mark"}, x \in BOOLEAN}
\* An unconstrained adapter answers every call with any result of the
\* interface: main_output always present, positions None or >= 0; the one
\* without aux reports main_output alone.
FreeAdapter == [kind |-> "free", warmup |-> 0, delay |-> 0, data |-> "free", aux |-> TRUE]
FreeMainOnly == [FreeAdapter EXCEPT !.aux = FALSE]

Ramp(n) == [i \in 1 .. n |-> i % 2]
Tone(n, a) == [i \in 1 .. n |-> IF (i % a) = 0 THEN 0 ELSE 1]

Config(mode, buf, cs, mg, ad, lim, sr) ==
    [mode |-> mode, in_buffer |-> buf, chunksize |-> cs, margin |-> mg,
     adapter |-> ad, limit |-> lim, sample_rate |-> sr]

OfflineScripted ==
    {Config("offline", buf, cs, mg, ad, NoLimit, 1) :
        buf \in SeqsUpTo(Samples, MaxN), cs \in 1 .. MaxChunk, mg \in 0 .. MaxMargin,
        ad \in {a \in ScriptedAdapters : a.delay <= a.warmup}}
OfflineFree ==
    {Config("offline", Ramp(n), cs, 0, ad, NoLimit, 1) :
        n \in 0 .. MaxFreeN, cs \in 1 .. MaxChunk, ad \in {FreeAdapter, FreeMainOnly}}
\* The two concrete scenarios: chunksize 512, 2048 rows, margin 0 or 512,
\* zero or one call of warm-up, position = endIndex afterwards.
OfflineScenario ==
    {Config("offline", Tone(2048, a), 512, mg, ad, NoLimit, 16000) :
        a \in {3, 700}, mg \in {0, 512},
        ad \in {a2 \in ScriptedAdapters : a2.delay = 0 /\ a2.warmup <= 1 /\ ~a2.aux}}
WaveScripted ==
    {Config("wave", Ramp(n), cs, 0, ad, lim, sr) :
        n \in 0 .. MaxN, cs \in 1 .. MaxChunk,
        ad \in {a \in ScriptedAdapters : a.delay <= a.warmup /\ a.data = "echo" /\ ~a.aux},
        lim \in Limits, sr \in 1 .. 2}
WaveFree ==
    {Config("wave", Ramp(n), cs, 0, FreeAdapter, lim, 1) :
        n \in 1 .. MaxFreeN, cs \in 1 .. 2,
        lim \in {l \in Limits : l.den = 1}}
Configs == OfflineScripted \cup OfflineFree \cup OfflineScenario \cup WaveScripted \cup WaveFree

(* ------------------------------ adapter ------------------------------- *)
FreeData == {[i \in 1 .. n |-> i] : n \in 0 .. MaxLen}
Marks(n) == [i \in 1 .. n |-> 1]

\* Result of call k of a scripted adapter, given endIndex and the chunk.
ScriptedReturn(ad, k, endIndex, chunk) ==
    LET main == IF k <= ad.warmup
                THEN Entry(NoPos, NoData)
                ELSE Entry(SomePos(endIndex - ad.delay * Len(chunk)),
                           SomeData(IF ad.data = "echo" THEN chunk ELSE Marks(Len(chunk))))
        aux  == Entry(SomePos(endIndex), SomeData(Marks(Len(chunk))))
    IN  [s \in (IF ad.aux THEN Streams ELSE {"main_output"}) |->
            IF s = "main_output" THEN main ELSE aux]

\* Results an unconstrained adapter may give.  Offline, a reported position
\* comes with data (run_one_class_offline reads out_chunk.shape of every
\* entry whose position is not None); in streaming mode position and data are
\* independently None or present.
FreeMain(mode) ==
    IF mode = "offline"
    THEN {Entry(NoPos, NoData)}
         \cup {Entry(SomePos(p), SomeData(d)) : p \in 0 .. MaxPos, d \in FreeData}
    ELSE {Entry(p, d) : p \in {NoPos} \cup {SomePos(q) : q \in 0 .. MaxPos},
                        d \in {NoData} \cup {SomeData(x) : x \in FreeData}}
FreeAux(mode) ==
    IF mode = "offline"
    THEN {Entry(NoPos, NoData)} \cup {Entry(SomePos(p), SomeData(<<1>>)) : p \in 0 .. MaxPos}
    ELSE {Entry(SomePos(0), SomeData(<<0>>))}
FreeReturns(mode, aux) ==
    {[s \in {"main_output"} |-> m] : m \in FreeMain(mode)}
    \cup {[s \in Streams |-> IF s = "main_output" THEN m ELSE a] :
            m \in FreeMain(mode), a \in (IF aux THEN FreeAux(mode) ELSE {})}

\* processing.proccesing_func(index, in_chunk) on its k-th call.
AdapterReturns(c, k, endIndex, chunk) ==
    IF c.adapter.kind = "scripted"
    THEN {ScriptedReturn(c.adapter, k, endIndex, chunk)}
    ELSE FreeReturns(c.mode, c.adapter.aux)

\* Calls the model follows before it stops following the run.
CallCap(c) == IF c.adapter.kind = "free" THEN MaxFreeCalls ELSE MaxCalls

(* ----------------------------- scheduler ------------------------------ *)
buffer_size(c) == Len(c.in_buffer)
buffer_size2(c) == Len(c.in_buffer) + c.margin

\* Variant: the loop ends only on a position equal to the source length.
LoopCond_Exact(c, oi) == ~oi.some \/ oi.v # buffer_size(c)

\* Variant: the loop runs until the position reaches the margin-extended length.
LoopCond_Margin(c, oi) == ~oi.some \/ oi.v < buffer_size2(c)

\* Variant: the loop continues on a position equal to the source length.
LoopCond_Inclusive(c, oi) == ~oi.some \/ oi.v <= buffer_size(c)

\* Variant: the loop stops one chunk before the end of the source.
LoopCond_StopsEarly(c, oi) == ~oi.some \/ oi.v + c.chunksize < buffer_size(c)

\* Variant: an empty source is not looped over at all.
LoopCond_EmptyStops(c, oi) == buffer_size(c) > 0 /\ (~oi.some \/ oi.v < buffer_size(c))

\* while out_index is None or out_index < buffer_size
LoopCond(c, oi) == ~oi.some \/ oi.v < buffer_size(c)

\* Variant: a range is read whenever it starts inside the source.
InBounds_Started(c, idx) == idx - c.chunksize < buffer_size(c)

\* A range inside the source is read; any other chunk is all zeros.
InBounds(c, idx) == idx <= buffer_size(c)

\* in_buffer[index-chunksize:index, :] on a numpy buffer or a WaveNumpy.
ReadChunk(c, idx) ==
    IF c.mode = "wave"
    THEN WaveGetItem(c.in_buffer, idx - c.chunksize, idx)
    ELSE PySlice(c.in_buffer, idx - c.chunksize, idx)

InChunk(c, idx) == IF InBounds(c, idx) THEN ReadChunk(c, idx) ELSE Zeros(c.chunksize)

(* ------------------------ offline reassembler ------------------------- *)
\* Variant: a chunk is written, clipped, whenever the slice selects any row.
SliceFits_Clip(a, pos, chunk) == Len(PySlice(a, pos - Len(chunk), pos)) > 0

\* Variant: only the start of the slice is tested against the buffer.
SliceFits_NoUpper(a, pos, chunk) == pos - Len(chunk) >= 0

\* The test of line 81: the destination slice has as many rows as the chunk.
SliceFits(a, pos, chunk) == Len(PySlice(a, pos - Len(chunk), pos)) = Len(chunk)

\* Variant: one zeros array, made once, is stored for every stream, so all
\* destination buffers are the same object.
ReassembleEntry_Aliased(st, k, e, n) ==
    LET shared == IF DOMAIN st.arrs = {} THEN Zeros(n)
                  ELSE st.arrs[CHOOSE x \in DOMAIN st.arrs : TRUE]
        arrs1 == IF k \notin DOMAIN st.arrs /\ e.pos.some
                 THEN Put(st.arrs, k, shared) ELSE st.arrs
    IN  IF e.pos.some /\ SliceFits(arrs1[k], e.pos.v, e.data.v)
        THEN [arrs |-> [x \in DOMAIN arrs1 |->
                           PySliceAssign(arrs1[k], e.pos.v - Len(e.data.v), e.pos.v,
                                         e.data.v)],
              written |-> [st.written EXCEPT ![k] =
                              @ \cup PySliceRows(n, e.pos.v - Len(e.data.v), e.pos.v)]]
        ELSE [arrs |-> arrs1, written |-> st.written]

\* Variant: a fresh zeros array is stored on every result with a position.
ReassembleEntry_Realloc(st, k, e, n) ==
    LET arrs1 == IF e.pos.some THEN Put(st.arrs, k, Zeros(n)) ELSE st.arrs
    IN  IF e.pos.some /\ SliceFits(arrs1[k], e.pos.v, e.data.v)
        THEN [arrs |-> Put(arrs1, k, PySliceAssign(arrs1[k], e.pos.v - Len(e.data.v),
                                                   e.pos.v, e.data.v)),
              written |-> [st.written EXCEPT ![k] =
                              @ \cup PySliceRows(n, e.pos.v - Len(e.data.v), e.pos.v)]]
        ELSE [arrs |-> arrs1, written |-> st.written]

\* Variant: the buffer of a stream is made when its first chunk is written.
ReassembleEntry_AllocOnWrite(st, k, e, n) ==
    LET buf == IF k \in DOMAIN st.arrs THEN st.arrs[k] ELSE Zeros(n)
    IN  IF e.pos.some /\ SliceFits(buf, e.pos.v, e.data.v)
        THEN [arrs |-> Put(st.arrs, k, PySliceAssign(buf, e.pos.v - Len(e.data.v),
                                                     e.pos.v, e.data.v)),
              written |-> [st.written EXCEPT ![k] =
                              @ \cup PySliceRows(n, e.pos.v - Len(e.data.v), e.pos.v)]]
        ELSE st

\* The body of the inner for loop for one entry k, (pos, out_chunk); st is
\* [arrs: online_arrs, written: rows each stream's buffer had assigned].
ReassembleEntry(st, k, e, n) ==
    LET arrs1 == IF k \notin DOMAIN st.arrs /\ e.pos.some
                 THEN Put(st.arrs, k, Zeros(n)) ELSE st.arrs
    IN  IF e.pos.some /\ SliceFits(arrs1[k], e.pos.v, e.data.v)
        THEN [arrs |-> Put(arrs1, k, PySliceAssign(arrs1[k], e.pos.v - Len(e.data.v),
                                                   e.pos.v, e.data.v)),
              written |-> [st.written EXCEPT ![k] =
                              @ \cup PySliceRows(n, e.pos.v - Len(e.data.v), e.pos.v)]]
        ELSE [arrs |-> arrs1, written |-> st.written]

\* for k, (pos, out_chunk) in returns.items(), visiting the entries in `order`.
RECURSIVE Reassemble(_, _, _, _)
Reassemble(st, r, order, n) ==
    IF order = << >> THEN st
    ELSE Reassemble(ReassembleEntry(st, Head(order), r[Head(order)], n), r, Tail(order), n)

\* The orders a mapping's entries can be visited in.
Orders(S) == {o \in SeqsOfLen(S, Cardinality(S)) : \A x \in S : \E i \in DOMAIN o : o[i] = x}

(* ------------------------- streaming writer --------------------------- *)
\* Variant: the loop breaks only once the position is past the limit.
LimitHit_Strict(c, oi) ==
    c.limit.some /\ oi.some /\ oi.v * c.limit.den > c.limit.num * c.sample_rate

\* duration_limit is not None and out_index is not None and
\* out_index/sample_rate >= duration_limit, with duration_limit = num/den.
LimitHit(c, oi) ==
    c.limit.some /\ oi.some /\ oi.v * c.limit.den >= c.limit.num * c.sample_rate

\* Variant: the duration test sits inside the `if processed_data is not None`.
BreakAfter_OnlyWithData(c, e) == e.data.some /\ LimitHit(c, e.pos)

\* The `break` of the for loop, decided on the entry (out_index, processed_data).
BreakAfter(c, e) == LimitHit(c, e.pos)

\* Variant: data is written only when it comes with a position.
SinkAfter_NeedsPos(sink, e) == IF e.data.some /\ e.pos.some THEN sink \o e.data.v ELSE sink

\* if processed_data is not None: out_wav.write(processed_data)
SinkAfter(sink, e) == IF e.data.some THEN sink \o e.data.v ELSE sink

(* ------------------------------- state -------------------------------- *)
VARIABLES
    cfg,          \* the run's arguments
    pc,           \* "loop": at the while test; "yielded": a result is with the consumer; "done"
    index,        \* loop(): index
    out_index,    \* loop(): out_index
    in_chunk,     \* loop(): the chunk of the latest adapter call
    returns,      \* the result mapping of the latest adapter call
    ncall,        \* adapter calls so far (len(time_durations))
    online_arrs,  \* run_one_class_offline: stream name -> destination buffer
    written,      \* rows of each destination buffer assigned by line 82 so far
    out_wav,      \* compute_wave_file: the samples written to the output file
    yielded,      \* compute_wave_file: main_output entries received so far
    HAS_SOUNDFILE,  \* module global: the soundfile import succeeded
    in_filename,  \* compute_wave_file: in_filename
    out_filename, \* compute_wave_file: out_filename
    time_stats,   \* make_processing_loop: time_stats
    in_wav,       \* compute_wave_file: the input file is open for reading
    out_file,     \* compute_wave_file: the output file has been created for writing
    processing,   \* the ProcessingClass instance has been constructed
    time_durations, \* loop(): number of entries of time_durations
    printed       \* loop(): the timing summary has been printed

\* What a run is given / the resources it has acquired / its timing records.
args == <<HAS_SOUNDFILE, in_filename, out_filename, time_stats>>
files == <<in_wav, out_file, processing>>
stats == <<time_durations, printed>>

vars == <<cfg, pc, index, out_index, in_chunk, returns, ncall, online_arrs, written,
          out_wav, yielded, args, files, stats>>

\* File names a caller may pass.
FileNames == {"a.wav", "b.wav"}

\* An offline run starts at the loop, its adapter constructed by
\* make_processing_loop (run_one_class_offline passes time_stats on; an
\* unconstrained adapter is run with the default, True).  compute_wave_file
\* starts at its first line, with nothing opened and time_stats=False.
Init ==
    /\ cfg \in Configs
    /\ pc = IF cfg.mode = "wave" THEN "start" ELSE "loop"
    /\ HAS_SOUNDFILE \in (IF cfg.mode = "wave" THEN BOOLEAN ELSE {TRUE})
    /\ in_filename = "a.wav"
    /\ out_filename \in (IF cfg.mode = "wave" THEN FileNames ELSE {"b.wav"})
    /\ time_stats \in (IF cfg.mode = "wave" THEN {FALSE}
                       ELSE IF cfg.adapter.kind = "free" THEN {TRUE} ELSE BOOLEAN)
    /\ in_wav = FALSE
    /\ out_file = FALSE
    /\ processing = (cfg.mode = "offline")
    /\ time_durations = 0
    /\ printed = FALSE
    /\ index = 0
    /\ out_index = NoPos
    /\ in_chunk = << >>
    /\ returns = EmptyMap
    /\ ncall = 0
    /\ online_arrs = EmptyMap
    /\ written = [s \in Streams |-> {}]
    /\ out_wav = << >>
    /\ yielded = << >>

\* Variant: only the soundfile import is asserted.
PreconditionsHold_NoNameCheck(has, inf, outf) == has

\* assert HAS_SOUNDFILE; assert in_filename != out_filename
PreconditionsHold(has, inf, outf) == has /\ inf # outf

\* compute_wave_file, lines 159-161: the two assertions; a failed one raises
\* AssertionError and ends the call.
WaveAssert ==
    /\ pc = "start"
    /\ pc' = IF PreconditionsHold(HAS_SOUNDFILE, in_filename, out_filename)
             THEN "checked" ELSE "error"
    /\ UNCHANGED <<cfg, index, out_index, in_chunk, returns, ncall, online_arrs, written,
                   out_wav, yielded, args, files, stats>>

\* compute_wave_file, lines 162-176: WaveNumpy opens the input file, SoundFile
\* creates the output file, make_processing_loop constructs the adapter.
WaveOpen ==
    /\ pc = "checked"
    /\ in_wav' = TRUE
    /\ out_file' = TRUE
    /\ processing' = TRUE
    /\ pc' = "loop"
    /\ UNCHANGED <<cfg, index, out_index, in_chunk, returns, ncall, online_arrs, written,
                   out_wav, yielded, args, stats>>

\* One pass of the while loop of loop(), up to its yield.
LoopIter ==
    /\ pc = "loop"
    /\ LoopCond(cfg, out_index)
    /\ ncall < CallCap(cfg)
    /\ LET idx == index + cfg.chunksize
           chunk == InChunk(cfg, idx)
       IN  \E r \in AdapterReturns(cfg, ncall + 1, idx, chunk) :
              /\ index' = idx
              /\ in_chunk' = chunk
              /\ returns' = r
              /\ out_index' = r["main_output"].pos
              /\ yielded' = IF cfg.mode = "wave" THEN Append(yielded, r["main_output"])
                            ELSE yielded
    /\ ncall' = ncall + 1
    /\ time_durations' = IF time_stats THEN time_durations + 1 ELSE time_durations
    /\ pc' = "yielded"
    /\ UNCHANGED <<cfg, online_arrs, written, out_wav, args, files, printed>>

\* The result of a call the adapter answers with no position and no data.
Silent == [s \in {"main_output"} |-> Entry(NoPos, NoData)]

\* An offline run over an unconstrained adapter, past the horizon: the model
\* follows on only the iterations the adapter answers with (None, None), and
\* no longer counts them (index, ncall and in_chunk keep the values they had
\* at the horizon, standing for "that or later").
LoopSilent ==
    /\ pc = "loop"
    /\ LoopCond(cfg, out_index)
    /\ cfg.mode = "offline"
    /\ cfg.adapter.kind = "free"
    /\ ncall = CallCap(cfg)
    /\ returns' = Silent
    /\ out_index' = Silent["main_output"].pos
    /\ pc' = "yielded"
    /\ UNCHANGED <<cfg, index, in_chunk, ncall, online_arrs, written, out_wav, yielded,
                   args, files, stats>>

\* The while test fails: the generator is exhausted and the consumer's for
\* loop ends.
LoopExit ==
    /\ pc = "loop"
    /\ ~LoopCond(cfg, out_index)
    /\ printed' = time_stats
    /\ pc' = "done"
    /\ UNCHANGED <<cfg, index, out_index, in_chunk, returns, ncall, online_arrs, written,
                   out_wav, yielded, args, files, time_durations>>

\* run_one_class_offline: the body of `for returns in loop()`.
OfflineConsume ==
    /\ pc = "yielded"
    /\ cfg.mode = "offline"
    /\ \E order \in Orders(DOMAIN returns) :
          LET st == Reassemble([arrs |-> online_arrs, written |-> written], returns, order,
                               buffer_size(cfg))
          IN  /\ online_arrs' = st.arrs
              /\ written' = st.written
    /\ pc' = "loop"
    /\ UNCHANGED <<cfg, index, out_index, in_chunk, returns, ncall, out_wav, yielded,
                   args, files, stats>>

\* compute_wave_file: the body of `for i, returns in enumerate(loop())`.
WaveConsume ==
    /\ pc = "yielded"
    /\ cfg.mode = "wave"
    /\ out_wav' = SinkAfter(out_wav, returns["main_output"])
    /\ pc' = IF BreakAfter(cfg, returns["main_output"]) THEN "done" ELSE "loop"
    /\ UNCHANGED <<cfg, index, out_index, in_chunk, returns, ncall, online_arrs, written,
                   yielded, args, files, stats>>

Next ==
    WaveAssert \/ WaveOpen \/ LoopIter \/ LoopSilent \/ LoopExit \/ OfflineConsume \/ WaveConsume

Spec == Init /\ [][Next]_vars

\* The program is one sequential thread: it keeps running while it can.
\* Termination does not depend on the samples, so the runs are those over
\* the Ramp buffers; the unconstrained adapter is followed offline (where
\* the model goes on past the horizon), with chunks of one row and no aux.
LiveInit ==
    /\ Init
    /\ cfg.in_buffer = Ramp(Len(cfg.in_buffer))
    /\ cfg.adapter.kind = "free" => (cfg = Config("offline", Ramp(Len(cfg.in_buffer)), 1, 0, FreeMainOnly, NoLimit, 1))
    /\ cfg.adapter.kind = "scripted" => cfg.adapter.data = "echo"
    /\ cfg.mode = "wave" => (cfg.sample_rate = 1 /\ cfg.limit.den = 1)
    /\ PreconditionsHold(HAS_SOUNDFILE, in_filename, out_filename)
    /\ time_stats = (cfg.mode = "offline")
LiveSpec == LiveInit /\ [][Next]_vars /\ WF_vars(Next)

(* ------------------- the offline run as a function -------------------- *)
\* run_one_class_offline with a scripted adapter, from the state st of the
\* loop and the reassembler to the end of the run (or to the horizon).
RECURSIVE OfflineRun(_, _)
OfflineRun(c, st) ==
    IF ~LoopCond(c, st.out_index) \/ st.ncall >= CallCap(c) THEN st
    ELSE LET idx == st.index + c.chunksize
             chunk == InChunk(c, idx)
             r == ScriptedReturn(c.adapter, st.ncall + 1, idx, chunk)
             order == CHOOSE o \in Orders(DOMAIN r) : TRUE
             re == Reassemble([arrs |-> st.arrs, written |-> st.written], r, order,
                              buffer_size(c))
         IN  OfflineRun(c, [index |-> idx, out_index |-> r["main_output"].pos,
                            ncall |-> st.ncall + 1, arrs |-> re.arrs,
                            written |-> re.written,
                            nzero |-> st.nzero + (IF InBounds(c, idx) THEN 0 ELSE 1),
                            calls |-> Append(st.calls, <<idx, chunk>>),
                            time_stats |-> st.time_stats,
                            time_durations |-> st.time_durations
                                               + (IF st.time_stats THEN 1 ELSE 0)])

\* The state a run starts in, given its time_stats flag; calls is the
\* sequence of adapter calls made, as (index, in_chunk).
OfflineStartWith(ts) ==
    [index |-> 0, out_index |-> NoPos, ncall |-> 0, arrs |-> EmptyMap,
     written |-> [s \in Streams |-> {}], nzero |-> 0, calls |-> << >>,
     time_stats |-> ts, time_durations |-> 0]
OfflineStart == OfflineStartWith(FALSE)

(* ------------------------------ claims -------------------------------- *)
N == buffer_size(cfg)
Offline == cfg.mode = "offline"
Wave == cfg.mode = "wave"
Scripted == cfg.adapter.kind = "scripted"
\* The adapter reports position = endIndex with chunksize rows on every call.
NoDelay == Scripted /\ cfg.adapter.warmup = 0 /\ cfg.adapter.delay = 0
MainArr == online_arrs["main_output"]
HasMain == "main_output" \in DOMAIN online_arrs
Divisible == N % cfg.chunksize = 0

\* C1 as stated: N a positive multiple of chunksize, the adapter reports a
\* main_output position on every call after its warm-up (every scripted
\* adapter does); at run end every row of the main_output buffer has been
\* written.
C1_AnyWarmedUpAdapterTiles ==
    (pc = "done" /\ Offline /\ Scripted /\ N > 0 /\ Divisible)
        => (HasMain /\ written["main_output"] = 1 .. N)

\* C1 (amended): exact tiling.  N a positive multiple of chunksize and an
\* adapter that, after w calls of None, reports position endIndex - w*chunksize
\* with chunksize rows on every call: at run end every row of the main_output
\* buffer has been written (and holds the adapter's data, not its initial 0).
C1_ExactTiling ==
    (pc = "done" /\ Offline /\ Scripted /\ cfg.adapter.delay = cfg.adapter.warmup
        /\ N > 0 /\ Divisible)
        => /\ HasMain
           /\ written["main_output"] = 1 .. N
           /\ cfg.adapter.data = "mark" => \A i \in 1 .. N : MainArr[i] = 1

C1_Witness ==
    /\ pc = "done" /\ Offline /\ Scripted /\ Divisible
    /\ cfg.adapter.delay = cfg.adapter.warmup /\ cfg.adapter.warmup >= 1
    /\ N >= 2 * cfg.chunksize /\ cfg.chunksize >= 2
    /\ HasMain /\ written["main_output"] = 1 .. N

\* Every written row belongs to a chunk-aligned block that is written whole.
WholeChunks(W, cs) ==
    \A i \in W : \A j \in (((i - 1) \div cs) * cs + 1) .. (((i - 1) \div cs) * cs + cs) : j \in W
TailStart == (N \div cfg.chunksize) * cfg.chunksize

\* C2: dropped tail.  N not divisible by chunksize and position = endIndex with
\* chunksize rows on every call: no part of a chunk is ever written alone, and
\* at run end the terminating chunk (position > N) was skipped, rows
\* [floor(N/chunksize)*chunksize, N) are still zero and every earlier row is
\* written.
C2_DroppedTail ==
    (Offline /\ NoDelay /\ ~Divisible)
        => /\ WholeChunks(written["main_output"], cfg.chunksize)
           /\ pc = "done" =>
                /\ HasMain
                /\ out_index.some /\ out_index.v > N
                /\ written["main_output"] = 1 .. TailStart
                /\ \A i \in (TailStart + 1) .. N : MainArr[i] = 0

C2_Witness ==
    /\ pc = "done" /\ Offline /\ NoDelay /\ cfg.adapter.data = "mark"
    /\ ~Divisible /\ N > cfg.chunksize
    /\ HasMain /\ MainArr[N] = 0 /\ MainArr[1] = 1

\* The buffer of stream k before a step (zero-filled when not yet allocated).
Before(k) == IF k \in DOMAIN online_arrs THEN online_arrs[k] ELSE Zeros(N)
\* The buffer b with the rows [pos-len, pos) replaced by d.
Placed(b, pos, d) ==
    [i \in 1 .. Len(b) |-> IF pos - Len(d) < i /\ i <= pos THEN d[i - (pos - Len(d))] ELSE b[i]]

\* C3: write-or-skip.  Every step of the offline reassembler, for every
\* entry (pos, data) with a position: when 0 <= pos-len and pos <= N the
\* buffer becomes the old one with rows [pos-len, pos) replaced by data, and
\* otherwise it is the old one unchanged (zero-filled if just allocated).
C3_WriteOrSkip ==
    [][(pc = "yielded" /\ Offline) =>
          \A k \in DOMAIN returns :
             LET e == returns[k]
                 fits == 0 <= e.pos.v - Len(e.data.v) /\ e.pos.v <= N
             IN  e.pos.some =>
                   /\ k \in DOMAIN online_arrs'
                   /\ online_arrs'[k] = IF fits THEN Placed(Before(k), e.pos.v, e.data.v)
                                        ELSE Before(k)
                   /\ written'[k] = written[k] \cup
                        (IF fits THEN (e.pos.v - Len(e.data.v) + 1) .. e.pos.v ELSE {})]_vars

\* A chunk with a negative slice start has been consumed and nothing written.
C3_Witness ==
    /\ pc = "loop" /\ Offline /\ ~Scripted /\ ncall = 1 /\ N >= 2
    /\ returns["main_output"].pos.some
    /\ returns["main_output"].pos.v >= 1
    /\ returns["main_output"].pos.v < Len(returns["main_output"].data.v)
    /\ HasMain /\ MainArr = Zeros(N) /\ written["main_output"] = {}

\* C4 as stated: with any adapter of the interface (main_output on every
\* call, position None or >= 0) the loop eventually reaches its end.
C4_AlwaysFinite == <>(pc = "done")

\* C4 (amended): finiteness.  With an adapter that, after at most w calls of
\* None, reports on every call a position >= endIndex - w*chunksize (its
\* position follows the input with a bounded delay), the loop eventually
\* reaches its end.
C4_FiniteWithProgress == Scripted ~> (pc = "done")

\* A run over a delaying adapter has ended, after zero chunks flushed it.
C4_Witness ==
    /\ pc = "done" /\ Scripted /\ cfg.adapter.delay >= 1
    /\ index > N /\ out_index.some /\ out_index.v >= N

W == Len(out_wav)
CapRun == Wave /\ NoDelay /\ cfg.limit.some
AtLeastMin ==
    W * cfg.limit.den >= Min(cfg.limit.num * cfg.sample_rate, N * cfg.limit.den)
BelowCap ==
    W * cfg.limit.den < cfg.limit.num * cfg.sample_rate + cfg.chunksize * cfg.limit.den

\* C6 as stated: duration limit L >= 0, position = endIndex with chunksize
\* rows on every call; when the loop ends W >= min(Ls, N) and W < Ls + chunksize.
C6_CapFromZero == (pc = "done" /\ CapRun) => (AtLeastMin /\ BelowCap)

\* C6 (amended): duration cap.  As stated for every limit L > 0; with L = 0
\* the loop still appends the first chunk, so W = chunksize = Ls + chunksize.
C6_DurationCap ==
    (pc = "done" /\ CapRun)
        => /\ AtLeastMin
           /\ cfg.limit.num > 0 => BelowCap
           /\ cfg.limit.num = 0 => W = cfg.chunksize

\* The limit, below the input length, ended the run after two chunks or more.
C6_Witness ==
    /\ pc = "done" /\ CapRun /\ cfg.limit.num > 0
    /\ LoopCond(cfg, out_index) /\ ncall >= 2 /\ W = ncall * cfg.chunksize
    /\ cfg.limit.num * cfg.sample_rate < (N - cfg.chunksize) * cfg.limit.den

\* The data of the entries es whose data is not None, concatenated in order.
RECURSIVE ConcatData(_)
ConcatData(es) ==
    IF es = << >> THEN << >>
    ELSE (IF Head(es).data.some THEN Head(es).data.v ELSE << >>) \o ConcatData(Tail(es))
\* The entries the consumer has handled: all but the one it has just received.
Handled == IF pc = "yielded" THEN SubSeq(yielded, 1, Len(yielded) - 1) ELSE yielded

\* C7: streaming append order.  At every point of a compute_wave_file run
\* the sink holds the concatenation, in iteration order, of the main_output
\* data of the iterations handled so far whose data is not None, whatever
\* their position, and nothing else.
C7_AppendOrder == Wave => out_wav = ConcatData(Handled)

\* Data without a position was appended, an entry without data added nothing.
C7_Witness ==
    /\ Wave /\ pc = "loop" /\ Len(yielded) = 2 /\ "aux" \in DOMAIN returns
    /\ ~yielded[1].pos.some /\ yielded[1].data.some /\ Len(yielded[1].data.v) = 2
    /\ yielded[2].pos.some /\ ~yielded[2].data.some
    /\ out_wav = yielded[1].data.v

\* C8: chunk schedule.  After the k-th call, endIndex = k*chunksize and the
\* chunk has chunksize rows: the source rows [(k-1)*chunksize, k*chunksize)
\* when k*chunksize <= N, zeros otherwise.
C8_ChunkSchedule ==
    ncall >= 1 =>
        /\ index = ncall * cfg.chunksize
        /\ Len(in_chunk) = cfg.chunksize
        /\ index <= N =>
              \A i \in 1 .. cfg.chunksize : in_chunk[i] = cfg.in_buffer[index - cfg.chunksize + i]
        /\ index > N => IsZeros(in_chunk)

\* A range that starts inside the source and ends past it gave a zero chunk.
C8_Witness ==
    /\ ncall >= 2 /\ index > N /\ index - cfg.chunksize < N
    /\ cfg.in_buffer[N] = 1
    /\ Len(in_chunk) = cfg.chunksize /\ IsZeros(in_chunk)

Scenario == Offline /\ cfg.chunksize = 512 /\ N = 2048 /\ Scripted /\ cfg.adapter.delay = 0
PassThrough == Scenario /\ cfg.adapter.warmup = 0 /\ cfg.adapter.data = "echo"
WarmUp == Scenario /\ cfg.adapter.warmup = 1 /\ cfg.margin = 512

\* C9: pass-through scenario.  The k-th call reports position 512*k, the run
\* ends after exactly 4 iterations, and the main_output buffer then equals
\* the input buffer.
C9_PassThrough ==
    PassThrough =>
        /\ ncall <= 4
        /\ ncall >= 1 => out_index = SomePos(512 * ncall)
        /\ pc = "done" => (ncall = 4 /\ HasMain /\ MainArr = cfg.in_buffer)

C9_Witness ==
    /\ PassThrough /\ pc = "done" /\ ncall = 4 /\ out_index = SomePos(2048)
    /\ MainArr = cfg.in_buffer /\ ~IsZeros(cfg.in_buffer)

\* C10 as stated: warm-up scenario.  The run reaches a fifth call, which
\* reports position 2560; its write is dropped; rows [0, 512) are zero at
\* run end.
C10_ReachesFifthCall ==
    (WarmUp /\ pc = "done")
        => /\ ncall = 5 /\ out_index = SomePos(2560)
           /\ HasMain /\ \A i \in 1 .. 512 : MainArr[i] = 0

\* C10 (amended): warm-up scenario.  The run ends with the fourth call, which
\* reports position 2048 = N; no call reports 2560 and no write is dropped;
\* at run end rows [0, 512) are zero and never written, rows [512, 2048) are
\* written.
C10_WarmUp ==
    WarmUp =>
        /\ ncall <= 4
        /\ ncall >= 2 => out_index = SomePos(512 * ncall)
        /\ pc = "done" =>
              /\ ncall = 4 /\ HasMain
              /\ written["main_output"] = 513 .. 2048
              /\ \A i \in 1 .. 512 : MainArr[i] = 0

C10_Witness ==
    /\ WarmUp /\ pc = "done" /\ ncall = 4 /\ out_index = SomePos(2048)
    /\ cfg.adapter.data = "echo" /\ cfg.in_buffer[1] = 1 /\ MainArr[1] = 0
    /\ MainArr[513] = cfg.in_buffer[513] /\ MainArr[513] = 1


\* C11: when compute_wave_file is called without the soundfile capability, or
\* with in_filename equal to out_filename, it fails before it has opened the
\* input file, created the output file, constructed the adapter, processed a
\* chunk or written a sample.
C11_FailsBeforeAnyEffect ==
    (Wave /\ (~HAS_SOUNDFILE \/ in_filename = out_filename)) =>
        /\ pc \in {"start", "error"}
        /\ ~in_wav
        /\ ~out_file
        /\ ~processing
        /\ ncall = 0
        /\ yielded = <<>>
        /\ out_wav = <<>>

\* The call has failed on equal file names alone, the capability being present.
C11_Witness ==
    /\ Wave
    /\ pc = "error"
    /\ HAS_SOUNDFILE
    /\ in_filename = out_filename
    /\ ~in_wav /\ ~out_file

\* C12: determinism.  With a deterministic (scripted) adapter, an offline run
\* makes, call after call, the adapter calls that an independent run over the
\* same input, chunksize and adapter makes, whatever the time_stats flag of
\* either run and whatever order either run visits the entries of a result in,
\* and ends after the same number of calls with the same stream names and
\* identical destination buffers; and for any adapter, the reassembly of one
\* result gives the same buffers in every order of its entries.
C12_Determinism ==
    /\ (Offline /\ Scripted /\ pc \in {"yielded", "done"}) =>
          \A ts \in BOOLEAN :
              LET other == OfflineRun(cfg, OfflineStartWith(ts))
              IN  /\ ncall <= Len(other.calls)
                  /\ other.calls[ncall] = <<index, in_chunk>>
                  /\ pc = "done" =>
                        /\ Len(other.calls) = ncall
                        /\ DOMAIN other.arrs = DOMAIN online_arrs
                        /\ other.arrs = online_arrs
                        /\ other.time_durations = (IF ts THEN ncall ELSE 0)
    /\ (Offline /\ pc = "yielded") =>
          \A o1, o2 \in Orders(DOMAIN returns) :
              Reassemble([arrs |-> online_arrs, written |-> written], returns, o1, N).arrs
                  = Reassemble([arrs |-> online_arrs, written |-> written], returns, o2,
                               N).arrs

\* A run with timing on has ended with two streams, both written, after
\* several calls, with the buffers of the independent run that has timing off.
C12_Witness ==
    /\ pc = "done" /\ Offline /\ Scripted /\ cfg.adapter.aux
    /\ time_stats /\ time_durations = ncall /\ ncall >= 3
    /\ DOMAIN online_arrs = Streams
    /\ \A s \in Streams : written[s] # {}
    /\ \E i \in 1 .. N : online_arrs["main_output"][i] # online_arrs["aux"][i]
    /\ OfflineRun(cfg, OfflineStartWith(FALSE)).arrs = online_arrs

\* The main_output position of the latest result is None or below N.
Running == ~out_index.some \/ out_index.v < N

\* C13: termination rule.  The adapter is called only while the main_output
\* position of the latest result is None or below N (the source length,
\* without margin); the loop itself ends only right after a result whose
\* main_output position is non-null and at least N, and after that the adapter
\* is never called again.  While the position is None or below N the loop goes
\* on calling the adapter, with all-zero chunks once endIndex is past N,
\* however far endIndex is past N or N + margin.
C13_TerminationRule ==
    /\ [][ncall' # ncall => (pc = "loop" /\ Running)]_vars
    /\ [][(pc = "loop" /\ pc' = "done") =>
              /\ ncall >= 1
              /\ out_index = returns["main_output"].pos
              /\ out_index.some /\ out_index.v >= N]_vars
    /\ [][pc = "done" => (pc' = "done" /\ ncall' = ncall)]_vars
    /\ []((pc = "loop" /\ Running /\ ncall < CallCap(cfg)) => ENABLED LoopIter)
    /\ []((pc = "loop" /\ ~Running) => (~ENABLED LoopIter /\ ENABLED LoopExit))
    /\ []((ncall >= 1 /\ index > N) =>
              (Len(in_chunk) = cfg.chunksize /\ IsZeros(in_chunk)))

\* The loop has ended on a position at or past N after a call made with
\* endIndex more than a chunk past N + margin, the margin being positive.
C13_Witness ==
    /\ pc = "done" /\ Offline /\ Scripted
    /\ cfg.margin > 0 /\ N > 0
    /\ index - cfg.chunksize > N + cfg.margin
    /\ ncall >= 3
    /\ out_index.some /\ out_index.v >= N
    /\ IsZeros(in_chunk)

\* A duration limit is set and the position p, in seconds, has reached it.
ReachedLimit(p) ==
    /\ cfg.limit.some
    /\ p.some
    /\ p.v * cfg.limit.den >= cfg.limit.num * cfg.sample_rate

\* C14: streaming early exit.  After every iteration of the streaming loop,
\* with or without main_output data, the loop stops exactly when a limit is
\* set and the iteration's position is non-null with position/sample_rate >=
\* limit; once stopped there is no further adapter call and no further sink
\* append.  With no limit set the loop never stops early: it ends only on a
\* position at or past N, by the scheduler's own rule.
C14_EarlyExit ==
    /\ [][(Wave /\ pc = "yielded") =>
              (pc' = "done" <=> ReachedLimit(returns["main_output"].pos))]_vars
    /\ [][(Wave /\ pc = "done") => (ncall' = ncall /\ out_wav' = out_wav)]_vars
    /\ []((Wave /\ pc = "loop" /\ ncall >= 1) => ~ReachedLimit(out_index))
    /\ []((Wave /\ pc = "done" /\ ~cfg.limit.some) =>
              (out_index.some /\ out_index.v >= N))

\* The loop has stopped on its second result, one with a position at the
\* limit, below N, and no data.
C14_Witness ==
    /\ Wave /\ pc = "done" /\ cfg.limit.some
    /\ Len(yielded) = 2
    /\ ~yielded[2].data.some
    /\ yielded[2].pos.some /\ yielded[2].pos.v < N
    /\ ReachedLimit(yielded[2].pos)
    /\ yielded[1].data.some /\ ~ReachedLimit(yielded[1].pos)
    /\ out_wav = yielded[1].data.v

\* The streams of the result in hand that carry a non-null position.
Positioned == {s \in DOMAIN returns : returns[s].pos.some}

\* C15: lazy destination allocation.  No stream has a buffer before the first
\* result; handling a result adds a buffer for exactly the streams that carry
\* a non-null position in it and have none yet, and nothing else ever adds or
\* removes one, so a stream has a buffer iff some result so far carried a
\* non-null position for it (a stream that only reported None has none).  A
\* buffer has N rows, all zero where no chunk has been written, also when the
\* chunk of its first sighting was skipped; it is never replaced: a row
\* changes only under a chunk of its own stream that covers it.
C15_LazyAllocation ==
    /\ []((Offline /\ ncall = 0) => DOMAIN online_arrs = {})
    /\ [][DOMAIN online_arrs' =
              DOMAIN online_arrs
                  \cup (IF Offline /\ pc = "yielded" /\ pc' = "loop" THEN Positioned
                        ELSE {})]_vars
    /\ [](\A s \in DOMAIN online_arrs :
              /\ Len(online_arrs[s]) = N
              /\ \A i \in 1 .. N : i \notin written[s] => online_arrs[s][i] = 0)
    /\ [][\A s \in DOMAIN online_arrs : \A i \in 1 .. N :
              online_arrs'[s][i] # online_arrs[s][i] =>
                  /\ s \in Positioned
                  /\ returns[s].pos.v - Len(returns[s].data.v) < i
                  /\ i <= returns[s].pos.v]_vars

\* aux got its buffer, still all zero, from a result whose chunk did not fit,
\* while main_output, which has reported None only, has none.
C15_Witness ==
    /\ Offline /\ pc = "loop" /\ ncall >= 1 /\ N >= 1
    /\ DOMAIN online_arrs = {"aux"}
    /\ written["aux"] = {}
    /\ online_arrs["aux"] = Zeros(N)
    /\ returns["aux"].pos.some
    /\ ~returns["main_output"].pos.some

\* C16: the loop makes at least one iteration for every N >= 0, N = 0
\* included: before the first call the loop can only go on to call the
\* adapter, a run that has ended has called it at least once, and when N is
\* below chunksize every chunk the adapter has received is chunksize rows of
\* zeros.
C16_AtLeastOneIteration ==
    /\ (pc = "loop" /\ ncall = 0) => (ENABLED LoopIter /\ ~ENABLED LoopExit)
    /\ pc = "done" => ncall >= 1
    /\ (ncall >= 1 /\ N < cfg.chunksize) =>
           (Len(in_chunk) = cfg.chunksize /\ IsZeros(in_chunk))

\* A run over an empty source has ended after calling the adapter, on zeros.
C16_Witness ==
    /\ pc = "done" /\ Offline
    /\ N = 0
    /\ ncall >= 1
    /\ Len(in_chunk) = cfg.chunksize /\ IsZeros(in_chunk)
    /\ HasMain /\ MainArr = << >>

\* C17: an offline run that has ended returns a mapping with a buffer for
\* main_output, and the reassembly never writes to a stream without a buffer:
\* handling a result leaves a buffer for every stream that carried a position
\* in it, and rows are recorded as written only for streams that have one.
C17_MainAllocated ==
    /\ []((pc = "done" /\ Offline) => (HasMain /\ Len(MainArr) = N))
    /\ [][(Offline /\ pc = "yielded" /\ pc' = "loop") =>
              \A s \in Positioned : s \in DOMAIN online_arrs']_vars
    /\ [](\A s \in Streams : written[s] # {} => s \in DOMAIN online_arrs)

\* A run has ended with a main_output buffer that no chunk was written to: it
\* was made for the one result that carried a position, whose chunk did not fit.
C17_Witness ==
    /\ pc = "done" /\ Offline
    /\ HasMain /\ N >= 1
    /\ written["main_output"] = {}
    /\ MainArr = Zeros(N)

====
